---- MODULE Spec2Model ----
(***************************************************************************)
(* Model of the nopi-fin server handlers (server/src/handlers) over the    *)
(* relational store declared in server/src/db/schema.ts.                   *)
(*                                                                         *)
(* Instants (JavaScript Date values, SQL timestamps) are integers counting *)
(* ticks since 1 January BaseYear 00:00:00.000 local time.  One tick is    *)
(* the resolution of a Date (a millisecond in the program); a day has      *)
(* TicksPerDay of them, so that tick TicksPerDay - 1 of a day stands for   *)
(* 23:59:59.999.  Local time has no daylight-saving shifts in the model.   *)
(*                                                                         *)
(* A request carries an amount in thousandths of the currency unit and a   *)
(* stored numeric(12,2) column holds hundredths, both integers.  What the  *)
(* handlers compute with is the JavaScript number parseFloat makes of the  *)
(* column: an IEEE 754 double, kept here as a sign and a magnitude in      *)
(* units of 2^-FracBits, and added and subtracted with the rounding of the *)
(* double format.                                                          *)
(*                                                                         *)
(* The client keeps the signed-in user in client: the state of the        *)
(* AuthProvider component and the entry nopifin_user of localStorage.      *)
(*                                                                         *)
(* A handler runs its statements in one step, except where a handler is    *)
(* also given as two steps, its first query and the rest, with the call    *)
(* kept in pending in between so that other calls can take effect there.   *)
(***************************************************************************)
EXTENDS Integers, Sequences, FiniteSets, TLC

VARIABLES users, transactions, notes, nextTxId, nextNoteId, now, last, pending,
          client

vars == <<users, transactions, notes, nextTxId, nextNoteId, now, last, pending, client>>

store == <<users, transactions, notes>>

----------------------------------------------------------------------------
(* Bounds of the model *)

TicksPerDay == 2
BaseYear == 2023
RangeYears == 3
MaxTxs == 2
MaxNotes == 1
MaxTicks == 1
SumTxs == 3
MaxTie == 3

\* Calls that may be between their first query and their insert at once
MaxPending == 2

\* Stored transactions, and stored notes, of the listings
ListTxs == 3

ListNotes == 3

----------------------------------------------------------------------------
(* Schema enumerations *)

Categories == {"DD", "ADD", "PBH", "PAD", "DLL"}

Types == {"income", "expense"}

Periods == {"weekly", "monthly", "yearly", "custom"}

(* An optional request field: <<>> when the field is undefined, <<v>> when *)
(* it carries v.                                                           *)
None == <<>>

Some(v) == <<v>>

----------------------------------------------------------------------------
(* The Date arithmetic used by the handlers *)

LastTick == TicksPerDay - 1

IsLeap(y) == (y % 4 = 0 /\ y % 100 # 0) \/ y % 400 = 0

DaysInYear(y) == IF IsLeap(y) THEN 366 ELSE 365

\* m is a month index 0..11, as in Date.getMonth()
DaysInMonth(y, m) ==
    IF m = 1 THEN (IF IsLeap(y) THEN 29 ELSE 28)
    ELSE IF m \in {3, 5, 8, 10} THEN 30 ELSE 31

RECURSIVE YearStartDay(_)
YearStartDay(y) ==
    IF y = BaseYear THEN 0
    ELSE IF y > BaseYear THEN YearStartDay(y - 1) + DaysInYear(y - 1)
    ELSE YearStartDay(y + 1) - DaysInYear(y)

RECURSIVE MonthStartDay(_, _)
MonthStartDay(y, m) ==
    IF m = 0 THEN 0 ELSE MonthStartDay(y, m - 1) + DaysInMonth(y, m - 1)

\* new Date(year, month, day, ...time): month and day outside their range
\* carry into the year and the month (ECMAScript MakeDay / MakeDate).
MakeDate(y, m, d, t) ==
    LET yy == y + (m \div 12)
        mm == m % 12
    IN  (YearStartDay(yy) + MonthStartDay(yy, mm) + d - 1) * TicksPerDay + t

DayOf(ts) == ts \div TicksPerDay

TimeOfDay(ts) == ts % TicksPerDay

YearWindow == (BaseYear - 1) .. (BaseYear + RangeYears + 1)

GetFullYear(ts) ==
    CHOOSE y \in YearWindow :
        YearStartDay(y) <= DayOf(ts) /\ DayOf(ts) < YearStartDay(y + 1)

GetMonth(ts) ==
    LET y == GetFullYear(ts)
        k == DayOf(ts) - YearStartDay(y)
    IN  CHOOSE m \in 0..11 :
            MonthStartDay(y, m) <= k /\ k < MonthStartDay(y, m) + DaysInMonth(y, m)

GetDate(ts) ==
    LET y == GetFullYear(ts)
    IN  DayOf(ts) - YearStartDay(y) - MonthStartDay(y, GetMonth(ts)) + 1

----------------------------------------------------------------------------
(* Request values *)

UserIds == {"u1", "u2"}

Emails == {"a@x", "b@x"}

\* A missing string field and the SQL NULL
Undefined == "<undefined>"

NULL == "<null>"

\* The instant the clock shows in the initial state: the last tick of
\* 31 January of the year after BaseYear.
Now0 == MakeDate(BaseYear + 1, 0, 31, LastTick)

\* Business dates of requests: the last tick of January, the first tick of
\* February and the first tick of March.
InputDates == {Now0, Now0 + 1, MakeDate(BaseYear + 1, 2, 1, 0)}

TxIds == 1..(MaxTxs + 1)

NoteIds == 1..(MaxNotes + 1)

----------------------------------------------------------------------------
(* Conversions at the storage boundary *)

\* amount.toString() written to a numeric(12,2) column: the store keeps two
\* decimals, rounding half away from zero.  Thousandths in, hundredths out.
ToNumeric(a) == (a + 5) \div 10

----------------------------------------------------------------------------
(* JavaScript numbers: IEEE 754 doubles of magnitude below 2^13.  A        *)
(* magnitude is a natural number of units of 2^-FracBits, written with     *)
(* four digits of base 2^20, the lowest first.  Every double from 0.01 up  *)
(* is a whole number of these units.                                       *)

MantissaBits == 53
FracBits == 59
GuardBits == 8

Base == 2^20

BigZero == <<0, 0, 0, 0>>

BigAdd(a, b) ==
    LET s1 == a[1] + b[1]
        s2 == a[2] + b[2] + (s1 \div Base)
        s3 == a[3] + b[3] + (s2 \div Base)
        s4 == a[4] + b[4] + (s3 \div Base)
    IN  <<s1 % Base, s2 % Base, s3 % Base, s4>>

\* a - b for a >= b
BigSub(a, b) ==
    LET d1 == a[1] - b[1]
        d2 == a[2] - b[2] - (IF d1 < 0 THEN 1 ELSE 0)
        d3 == a[3] - b[3] - (IF d2 < 0 THEN 1 ELSE 0)
        d4 == a[4] - b[4] - (IF d3 < 0 THEN 1 ELSE 0)
    IN  <<d1 % Base, d2 % Base, d3 % Base, d4>>

BigLess(a, b) ==
    \/ a[4] < b[4]
    \/ a[4] = b[4] /\ a[3] < b[3]
    \/ a[4] = b[4] /\ a[3] = b[3] /\ a[2] < b[2]
    \/ a[4] = b[4] /\ a[3] = b[3] /\ a[2] = b[2] /\ a[1] < b[1]

RECURSIVE BitLen(_)
BitLen(x) == IF x = 0 THEN 0 ELSE 1 + BitLen(x \div 2)

BigBitLen(a) ==
    IF a[4] # 0 THEN 60 + BitLen(a[4])
    ELSE IF a[3] # 0 THEN 40 + BitLen(a[3])
    ELSE IF a[2] # 0 THEN 20 + BitLen(a[2])
    ELSE BitLen(a[1])

\* Round a magnitude to MantissaBits significant bits, to nearest, ties to
\* even; sticky says that the exact value lies above a.  At most 20 bits are
\* dropped.
Round53(a, sticky) ==
    LET d == BigBitLen(a) - MantissaBits
    IN  IF d <= 0 THEN a
        ELSE LET low == a[1] % (2^d)
                 half == 2^(d - 1)
                 odd == IF d < 20 THEN (a[1] \div (2^d)) % 2 = 1 ELSE a[2] % 2 = 1
                 up == low > half \/ (low = half /\ (sticky \/ odd))
                 cut == [a EXCEPT ![1] = a[1] - low]
                 ulp == IF d < 20 THEN <<2^d, 0, 0, 0>> ELSE <<0, 1, 0, 0>>
             IN  IF up THEN BigAdd(cut, ulp) ELSE cut

ShiftRightGuard(a) ==
    LET g == 2^GuardBits
        u == Base \div g
    IN  <<(a[1] \div g) + (a[2] % g) * u,
          (a[2] \div g) + (a[3] % g) * u,
          (a[3] \div g) + (a[4] % g) * u,
          a[4] \div g>>

\* The magnitude of the double nearest to n / 100: n * 2^(FracBits +
\* GuardBits) is divided by 100 digit by digit, the quotient rounded, and the
\* guard bits, then zero, are dropped.
ParseMag(n) ==
    LET top == n * 2^(FracBits + GuardBits - 60)
        q4 == top \div 100
        c3 == (top % 100) * Base
        q3 == c3 \div 100
        c2 == (c3 % 100) * Base
        q2 == c2 \div 100
        c1 == (c2 % 100) * Base
        q1 == c1 \div 100
    IN  ShiftRightGuard(Round53(<<q1, q2, q3, q4>>, c1 % 100 # 0))

\* parseFloat of the text of a numeric(12,2) value of n hundredths
ParseFloat(n) == [neg |-> FALSE, mag |-> ParseMag(n)]

FZero == [neg |-> FALSE, mag |-> BigZero]

\* x + y
FAdd(x, y) ==
    IF x.neg = y.neg
    THEN [neg |-> x.neg, mag |-> Round53(BigAdd(x.mag, y.mag), FALSE)]
    ELSE IF x.mag = y.mag THEN FZero
    ELSE IF BigLess(x.mag, y.mag)
    THEN [neg |-> y.neg, mag |-> Round53(BigSub(y.mag, x.mag), FALSE)]
    ELSE [neg |-> x.neg, mag |-> Round53(BigSub(x.mag, y.mag), FALSE)]

FNeg(x) == IF x.mag = BigZero THEN x ELSE [x EXCEPT !.neg = ~x.neg]

\* x - y
FSub(x, y) == FAdd(x, FNeg(y))

----------------------------------------------------------------------------
(* Nulls *)

\* input.description || null
DescriptionOrNull(d) == IF d \in {Undefined, NULL, ""} THEN NULL ELSE d

----------------------------------------------------------------------------
(* Results *)

Ok(v) == [ok |-> TRUE, value |-> v]

Err(msg) == [ok |-> FALSE, error |-> msg]

NoCall == [op |-> "none", input |-> <<>>, result |-> Ok(<<>>), queries |-> <<>>]

Call(op, input, result, queries) ==
    [op |-> op, input |-> input, result |-> result, queries |-> queries]

\* A stored transaction row as the handlers return it
ToTransaction(row) == [row EXCEPT !.amount = ParseFloat(row.amount)]

----------------------------------------------------------------------------
(* Queries and statements on the tables *)

SelectAnyUser(us, id) == us

SelectUserById(us, id) == {u \in us : u.id = id}

UserConflictById(us, id, email) == \E u \in us : u.id = id

\* users.id is the primary key and users.email is unique
UserConflict(us, id, email) == \E u \in us : u.id = id \/ u.email = email

SelectTxById(txs, id, uid) == {t \in txs : t.id = id}

SelectTxByIdAndUser(txs, id, uid) == {t \in txs : t.id = id /\ t.user_id = uid}

DeleteTxByUser(txs, id, uid) == {t \in txs : ~(t.user_id = uid)}

DeleteTxByIdAndUser(txs, id, uid) == {t \in txs : ~(t.id = id /\ t.user_id = uid)}

SelectNoteByIdAndUser(ns, id, uid) == {n \in ns : n.id = id /\ n.user_id = uid}

DeleteNoteByIdAndUser(ns, id, uid) == {n \in ns : ~(n.id = id /\ n.user_id = uid)}

InRangeHalfOpen(d, start, end) == start <= d /\ d < end

\* start <= transaction_date <= end (gte, lte)
InRange(d, start, end) == start <= d /\ d <= end

SelectTxByUserInRange(txs, uid, start, end) ==
    {t \in txs : t.user_id = uid /\ InRange(t.transaction_date, start, end)}

\* All the orders in which the rows of a set can be listed
Listings(S) ==
    {f \in [1..Cardinality(S) -> S] :
        \A i, j \in 1..Cardinality(S) : i # j => f[i] # f[j]}

OrderByTransactionDateAsc(rows) ==
    {f \in Listings(rows) :
        \A i \in 1..(Len(f) - 1) : f[i].transaction_date <= f[i + 1].transaction_date}

\* ORDER BY transaction_date DESC: the store promises nothing about the
\* order of rows with equal keys, so each such listing is a possible answer.
OrderByTransactionDateDesc(rows) ==
    {f \in Listings(rows) :
        \A i \in 1..(Len(f) - 1) : f[i].transaction_date >= f[i + 1].transaction_date}

----------------------------------------------------------------------------
(* Report aggregation *)

MissingDates == "start_date and end_date are required for custom period"

CustomRangeDefaultNow(input, nw) ==
    Ok([start_date |-> IF input.start_date = None THEN nw ELSE input.start_date[1],
        end_date |-> IF input.end_date = None THEN nw ELSE input.end_date[1]])

\* The custom period: the dates of the request, both required
CustomRange(input, nw) ==
    IF input.start_date = None \/ input.end_date = None
    THEN Err(MissingDates)
    ELSE Ok([start_date |-> input.start_date[1], end_date |-> input.end_date[1]])

PeriodRangeNextMonthStart(period, nw) ==
    IF period = "weekly"
    THEN Ok([start_date |-> MakeDate(GetFullYear(nw), GetMonth(nw), GetDate(nw) - 7,
                                     TimeOfDay(nw)),
             end_date |-> nw])
    ELSE IF period = "monthly"
    THEN Ok([start_date |-> MakeDate(GetFullYear(nw), GetMonth(nw), 1, 0),
             end_date |-> MakeDate(GetFullYear(nw), GetMonth(nw) + 1, 1, LastTick)])
    ELSE IF period = "yearly"
    THEN Ok([start_date |-> MakeDate(GetFullYear(nw), 0, 1, 0),
             end_date |-> MakeDate(GetFullYear(nw), 11, 31, LastTick)])
    ELSE Err("Unsupported period: " \o period)

\* The periods counted from the current instant: the switch on the period
PeriodRange(period, nw) ==
    IF period = "weekly"
    THEN \* start_date = new Date(now); start_date.setDate(now.getDate() - 7)
         Ok([start_date |-> MakeDate(GetFullYear(nw), GetMonth(nw), GetDate(nw) - 7,
                                     TimeOfDay(nw)),
             end_date |-> nw])
    ELSE IF period = "monthly"
    THEN Ok([start_date |-> MakeDate(GetFullYear(nw), GetMonth(nw), 1, 0),
             end_date |-> MakeDate(GetFullYear(nw), GetMonth(nw) + 1, 0, LastTick)])
    ELSE IF period = "yearly"
    THEN Ok([start_date |-> MakeDate(GetFullYear(nw), 0, 1, 0),
             end_date |-> MakeDate(GetFullYear(nw), 11, 31, LastTick)])
    ELSE Err("Unsupported period: " \o period)

calculateDateRange(input, nw) ==
    IF input.period = "custom" THEN CustomRange(input, nw)
    ELSE PeriodRange(input.period, nw)

ReportRangeDatesFirst(us, input, nw) ==
    LET range == calculateDateRange(input, nw)
    IN  IF ~range.ok THEN range
        ELSE IF SelectUserById(us, input.user_id) = {}
        THEN Err("User not found: " \o input.user_id)
        ELSE range

\* What generateReport does before it queries the transactions: the user
\* check, then the date range.
ReportRange(us, input, nw) ==
    IF SelectUserById(us, input.user_id) = {}
    THEN Err("User not found: " \o input.user_id)
    ELSE calculateDateRange(input, nw)

ZeroByCategory == [c \in Categories |-> FZero]

ZeroTotals ==
    [total_income |-> FZero, total_expenses |-> FZero,
     income_by_category |-> ZeroByCategory, expenses_by_category |-> ZeroByCategory]

\* The body of the loop over the transactions
AddTransaction(acc, t) ==
    IF t.type = "income"
    THEN [acc EXCEPT !.total_income = FAdd(@, t.amount),
                     !.income_by_category[t.category] = FAdd(@, t.amount)]
    ELSE [acc EXCEPT !.total_expenses = FAdd(@, t.amount),
                     !.expenses_by_category[t.category] = FAdd(@, t.amount)]

RECURSIVE Totals(_, _)
Totals(txs, acc) ==
    IF txs = <<>> THEN acc ELSE Totals(Tail(txs), AddTransaction(acc, Head(txs)))

NetBalanceAdded(total_income, total_expenses) == FAdd(total_income, total_expenses)

NetBalance(total_income, total_expenses) == FSub(total_income, total_expenses)

ReportData(input, range, txs) ==
    LET acc == Totals(txs, ZeroTotals)
    IN  [period |-> input.period,
         start_date |-> range.start_date,
         end_date |-> range.end_date,
         total_income |-> acc.total_income,
         total_expenses |-> acc.total_expenses,
         net_balance |-> NetBalance(acc.total_income, acc.total_expenses),
         transactions |-> txs,
         income_by_category |-> acc.income_by_category,
         expenses_by_category |-> acc.expenses_by_category]

----------------------------------------------------------------------------
(* The handlers *)

\* The answers generateReport can give over a store
ReportResults(us, txs, input, nw) ==
    LET range == ReportRange(us, input, nw)
    IN  IF ~range.ok THEN {range}
        ELSE {Ok(ReportData(input, range.value,
                            [i \in 1..Len(results) |-> ToTransaction(results[i])])) :
                 results \in OrderByTransactionDateDesc(
                                SelectTxByUserInRange(txs, input.user_id,
                                                      range.value.start_date,
                                                      range.value.end_date))}

generateReport(input) ==
    /\ \E result \in ReportResults(users, transactions, input, now) :
          last' = Call("generateReport", input, result,
                       IF result.ok THEN <<"select users", "select transactions">>
                       ELSE <<"select users">>)
    /\ UNCHANGED <<users, transactions, notes, nextTxId, nextNoteId, now, pending, client>>

createUser(input) ==
    /\ IF UserConflict(users, input.id, input.email)
       THEN /\ last' = Call("createUser", input, Err("duplicate key"), <<"insert users">>)
            /\ users' = users
       ELSE /\ users' = users \cup {[id |-> input.id, email |-> input.email]}
            /\ last' = Call("createUser", input,
                            Ok([id |-> input.id, email |-> input.email]),
                            <<"insert users">>)
    /\ UNCHANGED <<transactions, notes, nextTxId, nextNoteId, now, pending, client>>

\* The answer is <<>> for null and <<u>> for the user u
getUser(userId) ==
    /\ LET result == SelectUserById(users, userId)
       IN  last' = Call("getUser", userId,
                        Ok(IF result = {} THEN None ELSE Some(CHOOSE u \in result : TRUE)),
                        <<"select users">>)
    /\ UNCHANGED <<users, transactions, notes, nextTxId, nextNoteId, now, pending, client>>

createTransaction(input) ==
    /\ nextTxId <= MaxTxs
    /\ IF SelectUserById(users, input.user_id) = {}
       THEN /\ last' = Call("createTransaction", input,
                            Err("User with id " \o input.user_id \o " not found"),
                            <<"select users">>)
            /\ UNCHANGED <<transactions, nextTxId>>
       ELSE LET row == [id |-> nextTxId,
                        user_id |-> input.user_id,
                        type |-> input.type,
                        amount |-> ToNumeric(input.amount),
                        category |-> input.category,
                        description |-> DescriptionOrNull(input.description),
                        transaction_date |-> input.transaction_date,
                        created_at |-> now,
                        updated_at |-> now]
            IN  /\ transactions' = transactions \cup {row}
                /\ nextTxId' = nextTxId + 1
                /\ last' = Call("createTransaction", input, Ok(ToTransaction(row)),
                                <<"select users", "insert transactions">>)
    /\ UNCHANGED <<users, notes, nextNoteId, now, pending, client>>

createNote(input) ==
    /\ nextNoteId <= MaxNotes
    /\ IF SelectUserById(users, input.user_id) = {}
       THEN /\ last' = Call("createNote", input,
                            Err("User with id " \o input.user_id \o " not found"),
                            <<"select users">>)
            /\ UNCHANGED <<notes, nextNoteId>>
       ELSE LET row == [id |-> nextNoteId,
                        user_id |-> input.user_id,
                        title |-> input.title,
                        content |-> input.content,
                        created_at |-> now,
                        updated_at |-> now]
            IN  /\ notes' = notes \cup {row}
                /\ nextNoteId' = nextNoteId + 1
                /\ last' = Call("createNote", input, Ok(row),
                                <<"select users", "insert notes">>)
    /\ UNCHANGED <<users, transactions, nextTxId, now, pending, client>>

\* What a deleteTransaction call answers and leaves in the table
DeleteTransactionOutcome(txs, input) ==
    IF SelectTxByIdAndUser(txs, input.id, input.user_id) = {}
    THEN [result |-> Err("Transaction not found or access denied"),
          queries |-> <<"select transactions">>,
          rows |-> txs]
    ELSE [result |-> Ok([success |-> TRUE]),
          queries |-> <<"select transactions", "delete transactions">>,
          rows |-> DeleteTxByIdAndUser(txs, input.id, input.user_id)]

deleteTransaction(input) ==
    /\ LET outcome == DeleteTransactionOutcome(transactions, input)
       IN  /\ transactions' = outcome.rows
           /\ last' = Call("deleteTransaction", input, outcome.result, outcome.queries)
    /\ UNCHANGED <<users, notes, nextTxId, nextNoteId, now, pending, client>>

\* What a deleteNote call answers and leaves in the table
DeleteNoteOutcome(ns, input) ==
    IF SelectNoteByIdAndUser(ns, input.id, input.user_id) = {}
    THEN [result |-> Ok([success |-> FALSE]),
          queries |-> <<"select notes">>,
          rows |-> ns]
    ELSE LET remaining == DeleteNoteByIdAndUser(ns, input.id, input.user_id)
             rowCount == Cardinality(ns) - Cardinality(remaining)
         IN  [result |-> Ok([success |-> rowCount > 0]),
              queries |-> <<"select notes", "delete notes">>,
              rows |-> remaining]

deleteNote(input) ==
    /\ LET outcome == DeleteNoteOutcome(notes, input)
       IN  /\ notes' = outcome.rows
           /\ last' = Call("deleteNote", input, outcome.result, outcome.queries)
    /\ UNCHANGED <<users, transactions, nextTxId, nextNoteId, now, pending, client>>

\* The clock advances
Tick ==
    /\ now < Now0 + MaxTicks
    /\ now' = now + 1
    /\ UNCHANGED <<users, transactions, notes, nextTxId, nextNoteId, last, pending, client>>

----------------------------------------------------------------------------
(* Math.round(x * 100) / 100 on doubles of magnitude below 64 *)

BigTimes(a, k) ==
    LET m1 == a[1] * k
        m2 == a[2] * k + (m1 \div Base)
        m3 == a[3] * k + (m2 \div Base)
        m4 == a[4] * k + (m3 \div Base)
    IN  <<m1 % Base, m2 % Base, m3 % Base, m4>>

\* x * 100
FTimes100(x) == [neg |-> x.neg, mag |-> Round53(BigTimes(x.mag, 100), FALSE)]

\* Math.round(x) as an integer: to nearest, a half goes towards +Infinity
MathRound(x) ==
    LET whole == x.mag[4] * 2 + (x.mag[3] \div 2^19)
        top == x.mag[3] % 2^19
        rest == x.mag[2] # 0 \/ x.mag[1] # 0
        overHalf == top > 2^18 \/ (top = 2^18 /\ rest)
        half == top = 2^18 /\ ~rest
    IN  IF x.neg
        THEN -(whole + (IF overHalf THEN 1 ELSE 0))
        ELSE whole + (IF overHalf \/ half THEN 1 ELSE 0)

\* k / 100 for an integer k; -0 and 0 are one value
DividedBy100(k) ==
    IF k < 0 THEN [neg |-> TRUE, mag |-> ParseMag(-k)] ELSE ParseFloat(k)

RoundToCents(x) == DividedBy100(MathRound(FTimes100(x)))

----------------------------------------------------------------------------
(* getDashboardData *)

RecentLimit == 5

SelectTxByUser(txs, uid) == {t \in txs : t.user_id = uid}

\* The orders in which a SELECT without ORDER BY can return its rows
RECURSIVE AnyOrder(_)
AnyOrder(rows) ==
    IF rows = {} THEN {<<>>}
    ELSE UNION {{<<r>> \o l : l \in AnyOrder(rows \ {r})} : r \in rows}

RECURSIVE OrderByTransactionDateInstead(_)
OrderByTransactionDateInstead(rows) ==
    IF rows = {} THEN {<<>>}
    ELSE UNION {{<<r>> \o l : l \in OrderByTransactionDateInstead(rows \ {r})} :
                    r \in {x \in rows : \A y \in rows :
                                            x.transaction_date >= y.transaction_date}}

\* ORDER BY created_at DESC, in any order among rows of equal created_at
RECURSIVE OrderByCreatedAtDesc(_)
OrderByCreatedAtDesc(rows) ==
    IF rows = {} THEN {<<>>}
    ELSE UNION {{<<r>> \o l : l \in OrderByCreatedAtDesc(rows \ {r})} :
                    r \in {x \in rows : \A y \in rows : x.created_at >= y.created_at}}

Limit(list, n) == SubSeq(list, 1, IF Len(list) < n THEN Len(list) ELSE n)

MonthWindow(nw) ==
    [currentMonthStart |-> MakeDate(GetFullYear(nw), GetMonth(nw), 1, 0),
     nextMonthStart |-> MakeDate(GetFullYear(nw), GetMonth(nw) + 1, 1, 0)]

InCurrentMonthInclusive(d, window) ==
    d >= window.currentMonthStart /\ d <= window.nextMonthStart

InCurrentMonth(d, window) ==
    d >= window.currentMonthStart /\ d < window.nextMonthStart

ZeroDashboard ==
    [totalIncome |-> FZero, totalExpenses |-> FZero,
     monthlyIncome |-> FZero, monthlyExpenses |-> FZero]

AddToDashboardMonthOnly(acc, row, window) ==
    LET amount == ParseFloat(row.amount)
        monthly == InCurrentMonth(row.transaction_date, window)
    IN  IF row.type = "income"
        THEN [acc EXCEPT !.totalIncome = IF monthly THEN FAdd(@, amount) ELSE @,
                         !.monthlyIncome = IF monthly THEN FAdd(@, amount) ELSE @]
        ELSE [acc EXCEPT !.totalExpenses = IF monthly THEN FAdd(@, amount) ELSE @,
                         !.monthlyExpenses = IF monthly THEN FAdd(@, amount) ELSE @]

\* The body of the loop over allTransactions
AddToDashboard(acc, row, window) ==
    LET amount == ParseFloat(row.amount)
        monthly == InCurrentMonth(row.transaction_date, window)
    IN  IF row.type = "income"
        THEN [acc EXCEPT !.totalIncome = FAdd(@, amount),
                         !.monthlyIncome = IF monthly THEN FAdd(@, amount) ELSE @]
        ELSE [acc EXCEPT !.totalExpenses = FAdd(@, amount),
                         !.monthlyExpenses = IF monthly THEN FAdd(@, amount) ELSE @]

RECURSIVE DashboardTotals(_, _, _)
DashboardTotals(rows, acc, window) ==
    IF rows = <<>> THEN acc
    ELSE DashboardTotals(Tail(rows), AddToDashboard(acc, Head(rows), window), window)

DashboardData(acc, recent) ==
    [current_balance |-> RoundToCents(FSub(acc.totalIncome, acc.totalExpenses)),
     total_income |-> RoundToCents(acc.totalIncome),
     total_expenses |-> RoundToCents(acc.totalExpenses),
     monthly_income |-> RoundToCents(acc.monthlyIncome),
     monthly_expenses |-> RoundToCents(acc.monthlyExpenses),
     recent_transactions |-> [i \in 1..Len(recent) |-> ToTransaction(recent[i])]]

\* The answers getDashboardData can give over a transactions table
DashboardResults(txs, userId, nw) ==
    LET rows == SelectTxByUser(txs, userId)
        sums == {DashboardTotals(all, ZeroDashboard, MonthWindow(nw)) :
                    all \in AnyOrder(rows)}
        recents == {Limit(l, RecentLimit) : l \in OrderByCreatedAtDesc(rows)}
    IN  {Ok(DashboardData(acc, recent)) : acc \in sums, recent \in recents}

getDashboardData(userId) ==
    /\ \E result \in DashboardResults(transactions, userId, now) :
          last' = Call("getDashboardData", userId, result,
                       <<"select transactions", "select transactions">>)
    /\ UNCHANGED <<users, transactions, notes, nextTxId, nextNoteId, now, pending, client>>

----------------------------------------------------------------------------
(* getTransactionsByUser and getUserNotes *)

DefaultNotesLimit == 1000

MatchesFiltersOfAnyUser(t, input) ==
    /\ input.type # Undefined => t.type = input.type
    /\ input.category # Undefined => t.category = input.category

\* The conditions of the query of getTransactionsByUser
MatchesFilters(t, input) ==
    /\ t.user_id = input.user_id
    /\ input.type # Undefined => t.type = input.type
    /\ input.category # Undefined => t.category = input.category

PageOneBased(list, limit, offset) ==
    LET first == IF offset = None THEN 1 ELSE offset[1]
        end == IF limit = None THEN Len(list) ELSE first + limit[1] - 1
    IN  IF first > Len(list) \/ first < 1 THEN <<>>
        ELSE SubSeq(list, first, IF end > Len(list) THEN Len(list) ELSE end)

\* LIMIT and OFFSET, each applied when it is given
Page(list, limit, offset) ==
    LET first == IF offset = None THEN 1 ELSE offset[1] + 1
        end == IF limit = None THEN Len(list) ELSE first + limit[1] - 1
    IN  IF first > Len(list) THEN <<>>
        ELSE SubSeq(list, first, IF end > Len(list) THEN Len(list) ELSE end)

\* The answers getTransactionsByUser can give over a transactions table
TransactionsResults(txs, input) ==
    {Ok([i \in 1..Len(page) |-> ToTransaction(page[i])]) :
        page \in {Page(l, input.limit, input.offset) :
                    l \in OrderByTransactionDateDesc(
                            {t \in txs : MatchesFilters(t, input)})}}

getTransactionsByUser(input) ==
    /\ \E result \in TransactionsResults(transactions, input) :
          last' = Call("getTransactionsByUser", input, result, <<"select transactions">>)
    /\ UNCHANGED <<users, transactions, notes, nextTxId, nextNoteId, now, pending, client>>

SelectNotesByUser(ns, uid) == {n \in ns : n.user_id = uid}

\* ORDER BY created_at DESC of the notes created from instant lo to instant
\* hi, in any order among notes of equal created_at
RECURSIVE NotesCreatedBetween(_, _, _)
NotesCreatedBetween(rows, hi, lo) ==
    IF rows = {} THEN {<<>>}
    ELSE IF hi = lo THEN AnyOrder(rows)
    ELSE LET mid == (hi + lo) \div 2
         IN  {a \o b : a \in NotesCreatedBetween({r \in rows : r.created_at > mid},
                                                 hi, mid + 1),
                        b \in NotesCreatedBetween({r \in rows : r.created_at <= mid},
                                                 mid, lo)}

OrderNotesByCreatedAtDesc(rows) ==
    IF rows = {} THEN {<<>>}
    ELSE LET keys == {r.created_at : r \in rows}
             hi == CHOOSE k \in keys : \A j \in keys : k >= j
             lo == CHOOSE k \in keys : \A j \in keys : k <= j
         IN  NotesCreatedBetween(rows, hi, lo)

\* The answers getUserNotes can give over a notes table
NotesResults(ns, input) ==
    LET limit == IF input.limit = None THEN Some(DefaultNotesLimit) ELSE input.limit
        offset == IF input.offset = None THEN Some(0) ELSE input.offset
    IN  {Ok(Page(l, limit, offset)) :
            l \in OrderNotesByCreatedAtDesc(SelectNotesByUser(ns, input.user_id))}

getUserNotes(input) ==
    /\ \E result \in NotesResults(notes, input) :
          last' = Call("getUserNotes", input, result, <<"select notes">>)
    /\ UNCHANGED <<users, transactions, notes, nextTxId, nextNoteId, now, pending, client>>

----------------------------------------------------------------------------
(* updateTransaction and updateNote.  An optional string field that is not *)
(* supplied is Undefined, an optional number or date is None.              *)

ExistingTransactionsAny(txs, id) == txs

\* select from transactions where id = input.id
ExistingTransactions(txs, id) == {t \in txs : t.id = id}

SetTransactionAllFields(t, input, nw) ==
    [t EXCEPT !.updated_at = nw,
              !.type = IF input.type # Undefined THEN input.type ELSE @,
              !.amount = IF input.amount # None THEN ToNumeric(input.amount[1]) ELSE @,
              !.category = IF input.category # Undefined THEN input.category ELSE @,
              !.description = IF input.description # Undefined THEN input.description
                              ELSE NULL,
              !.transaction_date = IF input.transaction_date # None
                                   THEN input.transaction_date[1] ELSE @]

\* updateData applied to a row
SetTransaction(t, input, nw) ==
    [t EXCEPT !.updated_at = nw,
              !.type = IF input.type # Undefined THEN input.type ELSE @,
              !.amount = IF input.amount # None THEN ToNumeric(input.amount[1]) ELSE @,
              !.category = IF input.category # Undefined THEN input.category ELSE @,
              !.description = IF input.description # Undefined THEN input.description
                              ELSE @,
              !.transaction_date = IF input.transaction_date # None
                                   THEN input.transaction_date[1] ELSE @]

\* What an updateTransaction call answers and leaves in the table.  The
\* update statement returns the rows it has changed; without a first one the
\* handler fails on reading its amount.
UpdateTransactionOutcome(txs, input, nw) ==
    IF ExistingTransactions(txs, input.id) = {}
    THEN [result |-> Err("Transaction not found"),
          queries |-> <<"select transactions">>,
          rows |-> txs]
    ELSE LET changed == {SetTransaction(t, input, nw) : t \in {x \in txs : x.id = input.id}}
             rows == {t \in txs : t.id # input.id} \cup changed
         IN  [result |-> IF changed = {} THEN Err("TypeError")
                         ELSE Ok(ToTransaction(CHOOSE t \in changed : TRUE)),
              queries |-> <<"select transactions", "update transactions">>,
              rows |-> rows]

updateTransaction(input) ==
    /\ LET outcome == UpdateTransactionOutcome(transactions, input, now)
       IN  /\ transactions' = outcome.rows
           /\ last' = Call("updateTransaction", input, outcome.result, outcome.queries)
    /\ UNCHANGED <<users, notes, nextTxId, nextNoteId, now, pending, client>>

\* select from notes where id = input.id
ExistingNotes(ns, id) == {n \in ns : n.id = id}

SetNote(n, input, nw) ==
    [n EXCEPT !.updated_at = nw,
              !.title = IF input.title # Undefined THEN input.title ELSE @,
              !.content = IF input.content # Undefined THEN input.content ELSE @]

NoteNotFound(id) == Err("Note with id " \o ToString(id) \o " not found")

\* What an updateNote call answers and leaves in the table.  Without a
\* changed row the handler returns result[0], which is undefined.
UpdateNoteOutcome(ns, input, nw) ==
    IF ExistingNotes(ns, input.id) = {}
    THEN [result |-> NoteNotFound(input.id),
          queries |-> <<"select notes">>,
          rows |-> ns]
    ELSE LET changed == {SetNote(n, input, nw) : n \in {x \in ns : x.id = input.id}}
             rows == {n \in ns : n.id # input.id} \cup changed
         IN  [result |-> IF changed = {} THEN Ok(Undefined)
                         ELSE Ok(CHOOSE n \in changed : TRUE),
              queries |-> <<"select notes", "update notes">>,
              rows |-> rows]

updateNote(input) ==
    /\ LET outcome == UpdateNoteOutcome(notes, input, now)
       IN  /\ notes' = outcome.rows
           /\ last' = Call("updateNote", input, outcome.result, outcome.queries)
    /\ UNCHANGED <<users, transactions, nextTxId, nextNoteId, now, pending, client>>

----------------------------------------------------------------------------
(* The client's AuthProvider and LoginForm.  user and nopifin_user are     *)
(* <<>> when absent and <<u>> when they hold the user u; a user carries    *)
(* dates as Date objects until JSON.stringify turns them into strings.     *)
(* submitted holds the outcome of login or signup while handleSubmit       *)
(* awaits it.                                                              *)

DEMO_USERS ==
    {[id |-> "user_1", email |-> "demo@nopifin.com", dates |-> "Date"],
     [id |-> "user_2", email |-> "test@example.com", dates |-> "Date"]}

DemoPassword == "demo123"

\* useState(null), useState(true), before the effect has run, and the
\* initial state of a LoginForm
FirstRender ==
    [user |-> None, loading |-> TRUE, nopifin_user |-> None, mounted |-> FALSE,
     isLogin |-> TRUE, error |-> "", isLoading |-> FALSE, submitted |-> None]

\* JSON.parse(JSON.stringify(u))
StringifyParse(u) == [u EXCEPT !.dates = "string"]

\* AppContent shows the LoginForm
FormShown(c) == c.mounted /\ ~c.loading /\ c.user = None

LoginFormShown == FormShown(client)

\* A LoginForm that is not shown is unmounted and loses its state
Render(c) ==
    IF FormShown(c) THEN c
    ELSE [c EXCEPT !.isLogin = TRUE, !.error = "", !.isLoading = FALSE]

\* The effect of AuthProvider, run once after the first render
checkSession ==
    /\ ~client.mounted
    /\ client' = [client EXCEPT !.user = IF client.nopifin_user # None
                                        THEN client.nopifin_user ELSE @,
                                !.loading = FALSE,
                                !.mounted = TRUE]
    /\ last' = Call("useEffect", <<>>, Ok(Undefined), <<>>)
    /\ UNCHANGED <<users, transactions, notes, nextTxId, nextNoteId, now, pending>>

\* setLoading(true), then the throw
loginFails(c) == [c EXCEPT !.loading = TRUE]

\* handleSubmit up to its await, with login run to its end
login(input) ==
    /\ LoginFormShown
    /\ ~client.isLoading
    /\ client.isLogin
    /\ LET demoUser == {u \in DEMO_USERS : u.email = input.email}
           form == [client EXCEPT !.error = "", !.isLoading = TRUE]
       IN  IF demoUser # {} /\ input.password = DemoPassword
           THEN LET u == CHOOSE x \in demoUser : TRUE
                IN  /\ client' = Render([form EXCEPT
                                            !.user = Some(u),
                                            !.nopifin_user = Some(StringifyParse(u)),
                                            !.loading = FALSE,
                                            !.submitted = Some("")])
                    /\ last' = Call("login", input, Ok(Undefined), <<>>)
           ELSE /\ client' = Render([loginFails(form) EXCEPT
                                        !.submitted = Some("Invalid credentials")])
                /\ last' = Call("login", input, Err("Invalid credentials"), <<>>)
    /\ UNCHANGED <<users, transactions, notes, nextTxId, nextNoteId, now, pending>>

\* handleSubmit up to its await, with signup run to its end
signup(input) ==
    /\ LoginFormShown
    /\ ~client.isLoading
    /\ ~client.isLogin
    /\ LET newUser == [id |-> "user_" \o ToString(now), email |-> input.email,
                       dates |-> "Date"]
       IN  client' = Render([client EXCEPT
                                !.error = "", !.isLoading = TRUE,
                                !.user = Some(newUser),
                                !.nopifin_user = Some(StringifyParse(newUser)),
                                !.loading = FALSE,
                                !.submitted = Some("")])
    /\ last' = Call("signup", input, Ok(Undefined), <<>>)
    /\ UNCHANGED <<users, transactions, notes, nextTxId, nextNoteId, now, pending>>

\* The button that switches the form between sign-in and sign-up
toggleIsLogin ==
    /\ LoginFormShown
    /\ ~client.isLoading
    /\ client' = [client EXCEPT !.isLogin = ~@]
    /\ last' = Call("setIsLogin", <<>>, Ok(Undefined), <<>>)
    /\ UNCHANGED <<users, transactions, notes, nextTxId, nextNoteId, now, pending>>

\* handleSubmit after its await: catch and finally
submitSettles ==
    /\ client.submitted # None
    /\ client' = Render([client EXCEPT
                            !.error = IF FormShown(client) /\ client.submitted[1] # ""
                                      THEN client.submitted[1] ELSE @,
                            !.isLoading = FALSE,
                            !.submitted = None])
    /\ UNCHANGED <<users, transactions, notes, nextTxId, nextNoteId, now, pending, last>>

logout ==
    /\ client.mounted /\ ~client.loading /\ client.user # None
    /\ client' = [client EXCEPT !.user = None, !.nopifin_user = None]
    /\ last' = Call("logout", <<>>, Ok(Undefined), <<>>)
    /\ UNCHANGED <<users, transactions, notes, nextTxId, nextNoteId, now, pending>>

\* The page is loaded again: the components start anew, localStorage stays
reload ==
    /\ client.mounted
    /\ client' = [FirstRender EXCEPT !.nopifin_user = client.nopifin_user]
    /\ last' = Call("reload", <<>>, Ok(Undefined), <<>>)
    /\ UNCHANGED <<users, transactions, notes, nextTxId, nextNoteId, now, pending>>

----------------------------------------------------------------------------
(* The server: an empty store, then any sequence of remote calls *)

CreateUserInputs == [id : UserIds, email : Emails]

CreateTransactionInputs ==
    [user_id : UserIds, type : {"income"}, amount : {1005}, category : {"DD"},
     description : {Undefined}, transaction_date : {Now0}]

CreateNoteInputs == [user_id : UserIds, title : {"t"}, content : {"c"}]

DeleteTransactionInputs == [id : TxIds, user_id : UserIds]

DeleteNoteInputs == [id : NoteIds, user_id : UserIds]

Init ==
    /\ users = {}
    /\ transactions = {}
    /\ notes = {}
    /\ nextTxId = 1
    /\ nextNoteId = 1
    /\ now = Now0
    /\ last = NoCall
    /\ pending = {}
    /\ client = FirstRender

Next ==
    \/ \E input \in CreateUserInputs : createUser(input)
    \/ \E input \in CreateTransactionInputs : createTransaction(input)
    \/ \E input \in CreateNoteInputs : createNote(input)
    \/ \E input \in DeleteTransactionInputs : deleteTransaction(input)
    \/ \E input \in DeleteNoteInputs : deleteNote(input)
    \/ Tick

Spec == Init /\ [][Next]_vars

----------------------------------------------------------------------------
(* Reports over a store of transactions of many kinds.  Those of u1 are of *)
(* both types, each with a category and an amount of its own, and of three *)
(* business dates; u2 has transactions of one kind, dated within every     *)
(* custom range that is asked for.                                         *)

ReportUserInputs == {[id |-> "u1", email |-> "a@x"], [id |-> "u2", email |-> "b@x"]}

ReportAmount(type) == IF type = "income" THEN 1005 ELSE 2500

ReportCategory(type) == IF type = "income" THEN "DD" ELSE "PBH"

ReportTransactionInputs ==
    {[user_id |-> "u1", type |-> ty, amount |-> ReportAmount(ty),
      category |-> ReportCategory(ty), description |-> Undefined,
      transaction_date |-> d] : ty \in Types, d \in InputDates}
    \cup {[user_id |-> "u2", type |-> "expense", amount |-> 2500, category |-> "PAD",
           description |-> Undefined, transaction_date |-> Now0 + 1]}

StartDates == {None, Some(Now0), Some(Now0 + 1)}

EndDates == {None, Some(Now0 + 1), Some(MakeDate(BaseYear + 1, 2, 1, 0))}

GenerateReportInputs ==
    [user_id : UserIds, period : Periods \ {"custom"}, start_date : {None},
     end_date : {None}]
    \cup [user_id : UserIds, period : {"custom"}, start_date : StartDates,
          end_date : EndDates]

NextReport ==
    \/ \E input \in ReportUserInputs : createUser(input)
    \/ \E input \in ReportTransactionInputs : createTransaction(input)
    \/ \E input \in GenerateReportInputs : generateReport(input)

SpecReport == Init /\ [][NextReport]_vars

----------------------------------------------------------------------------
(* Properties of a report *)

IsReport == last.op = "generateReport" /\ last.result.ok

Report == last.result.value

\* x < y for doubles
FLess(x, y) ==
    IF x.neg # y.neg THEN x.neg
    ELSE IF x.neg THEN BigLess(y.mag, x.mag) ELSE BigLess(x.mag, y.mag)

\* The sum, taken from the first entry of a list on, of the amounts of its
\* first n entries that are of a type
RECURSIVE SumOfType(_, _, _)
SumOfType(txs, type, n) ==
    IF n = 0 THEN FZero
    ELSE IF txs[n].type = type
    THEN FAdd(SumOfType(txs, type, n - 1), txs[n].amount)
    ELSE SumOfType(txs, type, n - 1)

\* The five values of a category mapping, added in the order of the enumeration
SumOfCategories(byCategory) ==
    FAdd(FAdd(FAdd(FAdd(byCategory["DD"], byCategory["ADD"]), byCategory["PBH"]),
              byCategory["PAD"]), byCategory["DLL"])

Listed(txs, type, category) ==
    \E i \in DOMAIN txs : txs[i].type = type /\ txs[i].category = category

\* C1: in every report, net_balance = total_income - total_expenses, where
\* total_income is the sum of the amounts of the income transactions of the
\* returned list and total_expenses the sum of its expense transactions
\* (sums and difference of doubles, the sums taken in the order of the list).
C1_NetBalance ==
    IsReport =>
        /\ Report.total_income
             = SumOfType(Report.transactions, "income", Len(Report.transactions))
        /\ Report.total_expenses
             = SumOfType(Report.transactions, "expense", Len(Report.transactions))
        /\ Report.net_balance = FSub(Report.total_income, Report.total_expenses)

C1_Witness ==
    /\ IsReport
    /\ FLess(FZero, Report.total_income)
    /\ FLess(Report.total_income, Report.total_expenses)
    /\ Report.net_balance.neg

\* C2: in every report both category mappings carry all five categories, a
\* category without activity carries 0, and the five values sum to the total
\* of their side.
C2_Categories ==
    IsReport =>
        /\ DOMAIN Report.income_by_category = Categories
        /\ DOMAIN Report.expenses_by_category = Categories
        /\ \A c \in Categories :
              /\ ~Listed(Report.transactions, "income", c)
                    => Report.income_by_category[c] = FZero
              /\ ~Listed(Report.transactions, "expense", c)
                    => Report.expenses_by_category[c] = FZero
        /\ SumOfCategories(Report.income_by_category) = Report.total_income
        /\ SumOfCategories(Report.expenses_by_category) = Report.total_expenses

IsCustomReport ==
    /\ IsReport
    /\ last.input.period = "custom"
    /\ last.input.start_date # None
    /\ last.input.end_date # None

ListedRows(txs) == {txs[i] : i \in DOMAIN txs}

\* C3: a custom report with both dates lists exactly the requesting user's
\* transactions t with start <= t.transaction_date <= end, each once (the
\* totals are those of the list, by C1).
C3_CustomRange ==
    IsCustomReport =>
        LET start == last.input.start_date[1]
            end == last.input.end_date[1]
            expected == {t \in transactions :
                            /\ t.user_id = last.input.user_id
                            /\ start <= t.transaction_date
                            /\ t.transaction_date <= end}
        IN  /\ ListedRows(Report.transactions) = {ToTransaction(t) : t \in expected}
            /\ Len(Report.transactions) = Cardinality(expected)
            /\ Report.start_date = start
            /\ Report.end_date = end

C3_Witness ==
    /\ IsCustomReport
    /\ Report.start_date < Report.end_date
    /\ \E i, j \in DOMAIN Report.transactions :
          /\ Report.transactions[i].transaction_date = Report.end_date
          /\ Report.transactions[j].transaction_date = Report.start_date

\* C4: for an existing user, a custom report request without start_date or
\* without end_date fails with the validation error and returns no report.
C4_CustomNeedsDates ==
    ( /\ last.op = "generateReport"
      /\ SelectUserById(users, last.input.user_id) # {}
      /\ last.input.period = "custom"
      /\ (last.input.start_date = None \/ last.input.end_date = None) )
        => last.result = Err(MissingDates)

C4_Witness ==
    /\ last.op = "generateReport"
    /\ SelectUserById(users, last.input.user_id) # {}
    /\ last.input.period = "custom"
    /\ last.input.start_date # None
    /\ last.input.end_date = None
    /\ ~last.result.ok

\* C5: a report request for a user that is not stored fails with the
\* user-not-found error whatever the period and the dates, and the handler
\* has queried the users only.
C5_UserNotFound ==
    ( /\ last.op = "generateReport"
      /\ \A u \in users : u.id # last.input.user_id )
        => /\ last.result = Err("User not found: " \o last.input.user_id)
           /\ last.queries = <<"select users">>

C5_Witness ==
    /\ last.op = "generateReport"
    /\ \A u \in users : u.id # last.input.user_id
    /\ last.input.period = "custom"
    /\ last.input.start_date = None
    /\ ~last.result.ok

SortedByDateDesc(txs) ==
    \A i, j \in DOMAIN txs :
        i < j => txs[i].transaction_date >= txs[j].transaction_date

\* C7 as stated: the list of a report is ordered by transaction_date
\* descending and transactions of equal date appear in insertion order.
C7_TiesInInsertionOrder ==
    IsReport =>
        /\ SortedByDateDesc(Report.transactions)
        /\ \A i, j \in DOMAIN Report.transactions :
              ( /\ i < j
                /\ Report.transactions[i].transaction_date
                     = Report.transactions[j].transaction_date )
                => Report.transactions[i].id < Report.transactions[j].id

\* C7 amended: the list of a report is ordered by transaction_date
\* descending; the order of transactions of equal date is not determined.
C7_DateDescending == IsReport => SortedByDateDesc(Report.transactions)

C7_Witness ==
    /\ IsReport
    /\ Len(Report.transactions) = 2
    /\ Report.transactions[1].transaction_date > Report.transactions[2].transaction_date
    /\ Report.transactions[1].id > Report.transactions[2].id

----------------------------------------------------------------------------
(* Reports over SumTxs transactions of one user, of amounts 0.10, 0.20 and  *)
(* 0.30 and of business dates that descend with the id, so that the report *)
(* lists them in the order of their ids                                    *)

SumKinds == [type : Types, amount : {10, 20, 30}, category : {"DD", "PBH"}]

SumRow(i, kind) ==
    [id |-> i, user_id |-> "u1", type |-> kind.type, amount |-> kind.amount,
     category |-> kind.category, description |-> NULL,
     transaction_date |-> Now0 - i, created_at |-> Now0, updated_at |-> Now0]

InitSums ==
    /\ users = {[id |-> "u1", email |-> "a@x"]}
    /\ \E kinds \in [1..SumTxs -> SumKinds] :
          transactions = {SumRow(i, kinds[i]) : i \in 1..SumTxs}
    /\ notes = {}
    /\ nextTxId = SumTxs + 1
    /\ nextNoteId = 1
    /\ now = Now0
    /\ last = NoCall
    /\ pending = {}
    /\ client = FirstRender

\* The one request of this section: a custom report over the SumTxs instants
\* up to Now0
SumReportInputs ==
    [user_id : {"u1"}, period : {"custom"}, start_date : {Some(Now0 - SumTxs)},
     end_date : {Some(Now0)}]

NextSums == \E input \in SumReportInputs : generateReport(input)

SpecSums == InitSums /\ [][NextSums]_vars

----------------------------------------------------------------------------
(* The date range of a report at every instant of RangeYears years *)

RangeInstants == 0..(YearStartDay(BaseYear + RangeYears) * TicksPerDay - 1)

InitRange ==
    /\ users = {[id |-> "u1", email |-> "a@x"]}
    /\ transactions = {}
    /\ notes = {}
    /\ nextTxId = 1
    /\ nextNoteId = 1
    /\ now \in RangeInstants
    /\ last = NoCall
    /\ pending = {}
    /\ client = FirstRender

\* The requests of this section: every period counted from the current
\* instant, without dates
RangeReportInputs ==
    [user_id : {"u1"}, period : Periods \ {"custom"}, start_date : {None},
     end_date : {None}]

NextRange == \E input \in RangeReportInputs : generateReport(input)

SpecRange == InitRange /\ [][NextRange]_vars

----------------------------------------------------------------------------
(* Properties of the deletes *)

MatchesTx(input) ==
    \E t \in transactions : t.id = input.id /\ t.user_id = input.user_id

MatchesNote(input) ==
    \E n \in notes : n.id = input.id /\ n.user_id = input.user_id

\* C8: a deleteTransaction or deleteNote call whose (id, user_id) matches no
\* stored record reports failure (deleteTransaction an error, deleteNote
\* success = false) and leaves every stored record as it was.
C8_DeleteMismatchFails ==
    [][ /\ ( /\ last'.op = "deleteTransaction"
             /\ deleteTransaction(last'.input)
             /\ ~MatchesTx(last'.input) )
             => /\ last'.result = Err("Transaction not found or access denied")
                /\ store' = store
        /\ ( /\ last'.op = "deleteNote"
             /\ deleteNote(last'.input)
             /\ ~MatchesNote(last'.input) )
             => /\ last'.result = Ok([success |-> FALSE])
                /\ store' = store ]_vars

\* A failed delete of a transaction that another user owns
C8_Witness ==
    /\ last.op = "deleteTransaction"
    /\ ~last.result.ok
    /\ \E t \in transactions : t.id = last.input.id /\ t.user_id # last.input.user_id

ForeignTxId(uid, id) ==
    /\ \E t \in transactions : t.id = id
    /\ \A t \in transactions : t.id = id => t.user_id # uid

ForeignNoteId(uid, id) ==
    /\ \E n \in notes : n.id = id
    /\ \A n \in notes : n.id = id => n.user_id # uid

\* C9: for each of the two deletes, the answer and the table after a delete
\* of an id stored under another owner are those of a delete of an id that
\* is stored nowhere.
C9_DeleteHidesForeignRecords ==
    \A uid \in UserIds :
        /\ \A i, j \in TxIds :
              (ForeignTxId(uid, i) /\ \A t \in transactions : t.id # j) =>
                LET foreign == DeleteTransactionOutcome(transactions,
                                                        [id |-> i, user_id |-> uid])
                    absent == DeleteTransactionOutcome(transactions,
                                                       [id |-> j, user_id |-> uid])
                IN  /\ foreign.result = absent.result
                    /\ foreign.rows = transactions
                    /\ absent.rows = transactions
        /\ \A i, j \in NoteIds :
              (ForeignNoteId(uid, i) /\ \A n \in notes : n.id # j) =>
                LET foreign == DeleteNoteOutcome(notes, [id |-> i, user_id |-> uid])
                    absent == DeleteNoteOutcome(notes, [id |-> j, user_id |-> uid])
                IN  /\ foreign.result = absent.result
                    /\ foreign.rows = notes
                    /\ absent.rows = notes

\* A refused delete of a note that another user owns
C9_Witness ==
    /\ last.op = "deleteNote"
    /\ last.result = Ok([success |-> FALSE])
    /\ ForeignNoteId(last.input.user_id, last.input.id)

----------------------------------------------------------------------------
(* The dashboard over a store of transactions dated around the bounds of   *)
(* the month of Now0: its first instant and the instant before, Now0, its  *)
(* last instant, and the first instant of the next month.  The server is   *)
(* started at Now0 or an instant later, in the next month.                 *)

MonthStart0 == MakeDate(BaseYear + 1, 0, 1, 0)

DashTransactionInputs ==
    {[user_id |-> "u1", type |-> "income", amount |-> 100, category |-> "DD",
      description |-> Undefined, transaction_date |-> d] :
        d \in {MonthStart0 - 1, MonthStart0, Now0, Now0 + 1}}
    \cup {[user_id |-> "u1", type |-> "income", amount |-> 200, category |-> "ADD",
           description |-> Undefined, transaction_date |-> Now0]}
    \cup {[user_id |-> "u1", type |-> "expense", amount |-> 300, category |-> "PBH",
           description |-> Undefined, transaction_date |-> d] :
             d \in {MonthStart0 - 1, Now0}}
    \cup {[user_id |-> "u2", type |-> "expense", amount |-> 2500, category |-> "PAD",
           description |-> Undefined, transaction_date |-> Now0]}

InitDash ==
    /\ users = {}
    /\ transactions = {}
    /\ notes = {}
    /\ nextTxId = 1
    /\ nextNoteId = 1
    /\ now \in {Now0, Now0 + 1}
    /\ last = NoCall
    /\ pending = {}
    /\ client = FirstRender

NextDash ==
    \/ \E input \in ReportUserInputs : createUser(input)
    \/ \E input \in DashTransactionInputs : createTransaction(input)
    \/ \E userId \in UserIds : getDashboardData(userId)

SpecDash == InitDash /\ [][NextDash]_vars

IsDashboard == last.op = "getDashboardData"

Dashboard == last.result.value

\* The sum of the stored amounts, in hundredths, of a set of rows
RECURSIVE SumOfAmounts(_)
SumOfAmounts(rows) ==
    IF rows = {} THEN 0
    ELSE LET r == CHOOSE x \in rows : TRUE
         IN  r.amount + SumOfAmounts(rows \ {r})

OfType(rows, type) == {r \in rows : r.type = type}

\* The rows dated in the calendar month of an instant
OfMonth(rows, nw) ==
    {r \in rows : /\ GetFullYear(r.transaction_date) = GetFullYear(nw)
                  /\ GetMonth(r.transaction_date) = GetMonth(nw)}

\* The number that stands for k hundredths
Hundredths(k) == IF k < 0 THEN FNeg(ParseFloat(-k)) ELSE ParseFloat(k)

FLessEq(x, y) == x = y \/ FLess(x, y)

\* C11: every dashboard of a user u carries as total_income and
\* total_expenses the decimal sums of the amounts of all of u's income and
\* expense transactions, whatever their dates, and as current_balance their
\* difference; for a user without transactions the five numbers are 0 and
\* recent_transactions is empty.
C11_DashboardTotals ==
    IsDashboard =>
        LET mine == {t \in transactions : t.user_id = last.input}
            income == SumOfAmounts(OfType(mine, "income"))
            expenses == SumOfAmounts(OfType(mine, "expense"))
        IN  /\ last.result.ok
            /\ Dashboard.total_income = Hundredths(income)
            /\ Dashboard.total_expenses = Hundredths(expenses)
            /\ Dashboard.current_balance = Hundredths(income - expenses)
            /\ mine = {} =>
                  /\ Dashboard.total_income = FZero
                  /\ Dashboard.total_expenses = FZero
                  /\ Dashboard.current_balance = FZero
                  /\ Dashboard.monthly_income = FZero
                  /\ Dashboard.monthly_expenses = FZero
                  /\ Dashboard.recent_transactions = <<>>

C11_Witness ==
    /\ IsDashboard
    /\ \E t1, t2 \in transactions :
          /\ t1.user_id = last.input /\ t2.user_id = last.input
          /\ t1.type = "income" /\ t2.type = "expense"
          /\ t1.transaction_date < MonthWindow(now).currentMonthStart
    /\ Dashboard.current_balance.neg

\* C12: monthly_income and monthly_expenses of a dashboard are the decimal
\* sums over exactly the user's transactions dated in the current calendar
\* month, from its first instant on and before the first instant of the next
\* month, and neither exceeds the total of its side.
C12_MonthlyHalfOpen ==
    [][ (last'.op = "getDashboardData" /\ UNCHANGED <<transactions, now>>) =>
            LET answer == last'.result.value
                mine == OfMonth({t \in transactions : t.user_id = last'.input}, now)
            IN  /\ answer.monthly_income
                     = Hundredths(SumOfAmounts(OfType(mine, "income")))
                /\ answer.monthly_expenses
                     = Hundredths(SumOfAmounts(OfType(mine, "expense")))
                /\ FLessEq(answer.monthly_income, answer.total_income)
                /\ FLessEq(answer.monthly_expenses, answer.total_expenses) ]_vars

\* A dashboard asked for in the next month over an income at the first
\* instant of that month, which counts, and one at the instant before, which
\* does not
C12_Witness ==
    /\ IsDashboard
    /\ now = Now0 + 1
    /\ \E t1, t2 \in transactions :
          /\ t1.user_id = last.input /\ t2.user_id = last.input
          /\ t1.type = "income" /\ t2.type = "income"
          /\ t1.transaction_date = now
          /\ t2.transaction_date = now - 1
    /\ Dashboard.monthly_income = Hundredths(10)
    /\ Dashboard.total_income = Hundredths(30)

----------------------------------------------------------------------------
(* The dashboard of a user with up to RecentLimit + 1 transactions, created *)
(* one after the other, up to MaxTie of them within one tick of the clock, *)
(* and dated either in the order of their creation or against it           *)

RecentRow(i, created, dated) ==
    [id |-> i, user_id |-> "u1", type |-> "income", amount |-> 10, category |-> "DD",
     description |-> NULL, transaction_date |-> dated, created_at |-> created,
     updated_at |-> created]

InitRecent ==
    /\ users = {[id |-> "u1", email |-> "a@x"]}
    /\ \E n \in 0..(RecentLimit + 1), tie \in 1..MaxTie, against \in BOOLEAN :
          transactions =
              {RecentRow(i, Now0 - ((n - i) \div tie),
                         IF against THEN Now0 - i ELSE Now0 - (n - i)) : i \in 1..n}
    /\ notes = {}
    /\ nextTxId = Cardinality(transactions) + 1
    /\ nextNoteId = 1
    /\ now = Now0
    /\ last = NoCall
    /\ pending = {}
    /\ client = FirstRender

NextRecent == getDashboardData("u1")

SpecRecent == InitRecent /\ [][NextRecent]_vars

\* C13: recent_transactions of a dashboard of u lists min(5, n) of u's n
\* transactions, each once, by created_at descending, none of the others
\* being created later than a listed one, whatever the transaction dates;
\* it never has more than 5 entries.
C13_RecentTransactions ==
    IsDashboard =>
        LET mine == {ToTransaction(t) : t \in {x \in transactions : x.user_id = last.input}}
            recent == Dashboard.recent_transactions
            n == Cardinality(mine)
        IN  /\ Len(recent) = IF n < 5 THEN n ELSE 5
            /\ Len(recent) <= 5
            /\ \A i \in DOMAIN recent : recent[i] \in mine
            /\ \A i, j \in DOMAIN recent : i # j => recent[i] # recent[j]
            /\ \A i \in 1..(Len(recent) - 1) :
                  recent[i].created_at >= recent[i + 1].created_at
            /\ \A t \in mine :
                  (\A i \in DOMAIN recent : recent[i] # t)
                      => \A i \in DOMAIN recent : recent[i].created_at >= t.created_at

\* Six transactions, the latest created being the earliest dated
C13_Witness ==
    /\ IsDashboard
    /\ Cardinality({t \in transactions : t.user_id = last.input}) = 6
    /\ Len(Dashboard.recent_transactions) = 5
    /\ Dashboard.recent_transactions[1].created_at
         > Dashboard.recent_transactions[5].created_at
    /\ Dashboard.recent_transactions[1].transaction_date
         < Dashboard.recent_transactions[5].transaction_date

----------------------------------------------------------------------------
(* The four queries over a store with the records of two users *)

IsolationTransactionInputs ==
    {[user_id |-> "u1", type |-> "income", amount |-> 100, category |-> "DD",
      description |-> Undefined, transaction_date |-> Now0],
     [user_id |-> "u2", type |-> "income", amount |-> 200, category |-> "DD",
      description |-> Undefined, transaction_date |-> Now0 + 1]}

IsolationReportInputs ==
    [user_id : UserIds, period : {"yearly"}, start_date : {None}, end_date : {None}]
    \cup [user_id : UserIds, period : {"custom"}, start_date : {Some(Now0)},
          end_date : {Some(Now0 + 1)}]

GetTransactionsInputs ==
    [user_id : UserIds, type : {Undefined}, category : {Undefined}, limit : {None},
     offset : {None}]
    \cup [user_id : UserIds, type : {"income"}, category : {"DD"}, limit : {Some(1)},
          offset : {Some(1)}]

GetUserNotesInputs ==
    [user_id : UserIds, limit : {None}, offset : {None}]
    \cup [user_id : UserIds, limit : {Some(1)}, offset : {Some(1)}]

NextIsolation ==
    \/ \E input \in ReportUserInputs : createUser(input)
    \/ \E input \in IsolationTransactionInputs : createTransaction(input)
    \/ \E input \in CreateNoteInputs : createNote(input)
    \/ \E userId \in UserIds : getDashboardData(userId)
    \/ \E input \in IsolationReportInputs : generateReport(input)
    \/ \E input \in GetTransactionsInputs : getTransactionsByUser(input)
    \/ \E input \in GetUserNotesInputs : getUserNotes(input)

SpecIsolation == Init /\ [][NextIsolation]_vars

OwnedBy(rows, uid) == {r \in rows : r.user_id = uid}

\* Every record of every list of a set is a record of the user
AllOwnedBy(lists, uid) ==
    \A list \in lists : \A i \in DOMAIN list : list[i].user_id = uid

\* C14: in every store, for every user A, each of getDashboardData,
\* generateReport, getTransactionsByUser and getUserNotes can give for A
\* exactly the answers it can give over the store cut down to A's user,
\* transactions and notes, and every record in such an answer is A's.
C14_OwnRecordsOnly ==
    \A uid \in UserIds :
        LET us == {u \in users : u.id = uid}
            txs == OwnedBy(transactions, uid)
            ns == OwnedBy(notes, uid)
        IN  /\ DashboardResults(transactions, uid, now) = DashboardResults(txs, uid, now)
            /\ AllOwnedBy({r.value.recent_transactions :
                              r \in DashboardResults(transactions, uid, now)}, uid)
            /\ \A input \in {i \in IsolationReportInputs : i.user_id = uid} :
                  /\ ReportResults(users, transactions, input, now)
                       = ReportResults(us, txs, input, now)
                  /\ AllOwnedBy({r.value.transactions :
                                    r \in {x \in ReportResults(users, transactions,
                                                               input, now) : x.ok}}, uid)
            /\ \A input \in {i \in GetTransactionsInputs : i.user_id = uid} :
                  /\ TransactionsResults(transactions, input)
                       = TransactionsResults(txs, input)
                  /\ AllOwnedBy({r.value : r \in TransactionsResults(transactions, input)},
                                uid)
            /\ \A input \in {i \in GetUserNotesInputs : i.user_id = uid} :
                  /\ NotesResults(notes, input) = NotesResults(ns, input)
                  /\ AllOwnedBy({r.value : r \in NotesResults(notes, input)}, uid)

\* A user has listed their transactions in a store that also holds a
\* transaction and a note of another user
C14_Witness ==
    /\ last.op = "getTransactionsByUser"
    /\ last.result.value # <<>>
    /\ \E t \in transactions : t.user_id # last.input.user_id
    /\ \E n \in notes : n.user_id # last.input.user_id

----------------------------------------------------------------------------
(* Creating records for a user that is not stored *)

UserStored(uid) == \E u \in users : u.id = uid

UserNotFound(uid) == Err("User with id " \o uid \o " not found")

\* C15: a createTransaction or createNote call whose user_id is the id of
\* no stored user fails with the user-not-found error and leaves the store
\* as it was.
C15_CreateNeedsUser ==
    [][ /\ ( /\ last'.op = "createTransaction"
             /\ createTransaction(last'.input)
             /\ ~UserStored(last'.input.user_id) )
             => /\ last'.result = UserNotFound(last'.input.user_id)
                /\ store' = store
        /\ ( /\ last'.op = "createNote"
             /\ createNote(last'.input)
             /\ ~UserStored(last'.input.user_id) )
             => /\ last'.result = UserNotFound(last'.input.user_id)
                /\ store' = store ]_vars

\* A createTransaction for a user that is not stored has failed in a store
\* that holds another user and a transaction
C15_Witness ==
    /\ last.op = "createTransaction"
    /\ ~last.result.ok
    /\ ~UserStored(last.input.user_id)
    /\ users # {}
    /\ transactions # {}

----------------------------------------------------------------------------
(* Updates over a store of two users, a transaction of each and a note,    *)
(* with a clock that can advance between any two calls.  An update         *)
(* supplies no field, or some fields, or the others.                       *)

UpdateTransactionInputs ==
    [id : TxIds, type : {Undefined}, amount : {None}, category : {Undefined},
     description : {Undefined}, transaction_date : {None}]
    \cup [id : TxIds, type : {Undefined}, amount : {Some(2504)}, category : {Undefined},
          description : {"d"}, transaction_date : {None}]
    \cup [id : TxIds, type : {"expense"}, amount : {None}, category : {"PBH"},
          description : {NULL}, transaction_date : {Some(Now0 + 1)}]

UpdateNoteInputs ==
    [id : NoteIds, title : {Undefined}, content : {Undefined}]
    \cup [id : NoteIds, title : {"t2"}, content : {Undefined}]
    \cup [id : NoteIds, title : {Undefined}, content : {""}]

StoredTransaction(i, uid) ==
    [id |-> i, user_id |-> uid, type |-> "income", amount |-> 101, category |-> "DD",
     description |-> "x", transaction_date |-> Now0, created_at |-> Now0,
     updated_at |-> Now0]

StoredNote(i, uid) ==
    [id |-> i, user_id |-> uid, title |-> "t", content |-> "c", created_at |-> Now0,
     updated_at |-> Now0]

InitUpdate ==
    /\ users = {[id |-> "u1", email |-> "a@x"], [id |-> "u2", email |-> "b@x"]}
    /\ transactions = {StoredTransaction(1, "u1"), StoredTransaction(2, "u2")}
    /\ notes = {StoredNote(1, "u1")}
    /\ nextTxId = 3
    /\ nextNoteId = 2
    /\ now = Now0
    /\ last = NoCall
    /\ pending = {}
    /\ client = FirstRender

NextUpdate ==
    \/ \E input \in UpdateTransactionInputs : updateTransaction(input)
    \/ \E input \in UpdateNoteInputs : updateNote(input)
    \/ Tick

SpecUpdate == InitUpdate /\ [][NextUpdate]_vars

\* The row of a table with an id
RowOf(rows, id) == CHOOSE r \in rows : r.id = id

HasRow(rows, id) == \E r \in rows : r.id = id

C19_UpdateNotFound ==
    [][ /\ ( /\ last'.op = "updateTransaction"
             /\ updateTransaction(last'.input)
             /\ ~HasRow(transactions, last'.input.id) )
             => /\ last'.result = Err("Transaction not found")
                /\ store' = store
        /\ ( /\ last'.op = "updateNote"
             /\ updateNote(last'.input)
             /\ ~HasRow(notes, last'.input.id) )
             => /\ last'.result
                     = Err("Note with id " \o ToString(last'.input.id) \o " not found")
                /\ store' = store ]_vars

\* An update of a transaction id that is not stored has failed after an
\* update of a stored one has changed the table
C19_Witness ==
    /\ last.op = "updateTransaction"
    /\ ~last.result.ok
    /\ ~HasRow(transactions, last.input.id)
    /\ last.input.type = "expense"
    /\ \E t \in transactions : t.description = "d"

\* C20: the updated_at of a transaction or note never decreases, and after
\* each successful update of the record it is strictly greater than before.
C20_UpdatedAtAdvances ==
    [][ /\ \A old \in transactions : \A new \in transactions' :
              old.id = new.id =>
                  /\ new.updated_at >= old.updated_at
                  /\ ( /\ last'.op = "updateTransaction"
                       /\ updateTransaction(last'.input)
                       /\ last'.result.ok
                       /\ last'.input.id = old.id )
                       => new.updated_at > old.updated_at
        /\ \A old \in notes : \A new \in notes' :
              old.id = new.id =>
                  /\ new.updated_at >= old.updated_at
                  /\ ( /\ last'.op = "updateNote"
                       /\ updateNote(last'.input)
                       /\ last'.result.ok
                       /\ last'.input.id = old.id )
                       => new.updated_at > old.updated_at ]_vars


----------------------------------------------------------------------------
(* Amounts at the edge of the schema: createTransaction and                *)
(* updateTransaction with the positive amounts 0.004, 0.005 and 1.005      *)

AmountInputs == {4, 5, 1005}

AmountTransactionInputs ==
    [user_id : {"u1"}, type : Types, amount : AmountInputs, category : {"DD"},
     description : {Undefined}, transaction_date : {Now0}]

AmountUpdateInputs ==
    [id : TxIds, type : {Undefined}, amount : {Some(a) : a \in AmountInputs},
     category : {Undefined}, description : {Undefined}, transaction_date : {None}]

InitAmounts ==
    /\ users = {[id |-> "u1", email |-> "a@x"]}
    /\ transactions = {}
    /\ notes = {}
    /\ nextTxId = 1
    /\ nextNoteId = 1
    /\ now = Now0
    /\ last = NoCall
    /\ pending = {}
    /\ client = FirstRender

NextAmounts ==
    \/ \E input \in AmountTransactionInputs : createTransaction(input)
    \/ \E input \in AmountUpdateInputs : updateTransaction(input)

SpecAmounts == InitAmounts /\ [][NextAmounts]_vars

\* C17: every stored transaction has an amount above zero, whatever
\* createTransaction and updateTransaction calls with positive amounts were
\* made.
C17_AmountPositive ==
    \A t \in transactions : t.amount > 0


----------------------------------------------------------------------------
(* createTransaction and createNote in two steps.  The handler awaits the  *)
(* select of the user, and the insert is a second statement: other calls   *)
(* take effect in between.  The insert is subject to the foreign key of    *)
(* user_id.                                                                *)

\* user_id references users.id
ReferencesUser(us, uid) == SelectUserById(us, uid) # {}

FreeSlot == CHOOSE s \in 1..MaxPending : \A c \in pending : c.slot # s

PendingOf(op) == {c \in pending : c.op = op}

beginCreateTransaction(input) ==
    /\ Cardinality(pending) < MaxPending
    /\ nextTxId + Cardinality(PendingOf("createTransaction")) <= MaxTxs
    /\ pending' = pending \cup {[slot |-> FreeSlot, op |-> "createTransaction",
                                 input |-> input,
                                 user |-> SelectUserById(users, input.user_id)]}
    /\ UNCHANGED <<users, transactions, notes, nextTxId, nextNoteId, now, last, client>>

finishCreateTransaction ==
    \E call \in PendingOf("createTransaction") :
        LET input == call.input
            row == [id |-> nextTxId,
                    user_id |-> input.user_id,
                    type |-> input.type,
                    amount |-> ToNumeric(input.amount),
                    category |-> input.category,
                    description |-> DescriptionOrNull(input.description),
                    transaction_date |-> input.transaction_date,
                    created_at |-> now,
                    updated_at |-> now]
        IN  /\ pending' = pending \ {call}
            /\ IF call.user = {}
               THEN /\ last' = Call("createTransaction", input,
                                    Err("User with id " \o input.user_id \o " not found"),
                                    <<"select users">>)
                    /\ UNCHANGED <<transactions, nextTxId>>
               ELSE IF ~ReferencesUser(users, input.user_id)
               THEN /\ last' = Call("createTransaction", input,
                                    Err("foreign key violation"),
                                    <<"select users", "insert transactions">>)
                    /\ UNCHANGED <<transactions, nextTxId>>
               ELSE /\ transactions' = transactions \cup {row}
                    /\ nextTxId' = nextTxId + 1
                    /\ last' = Call("createTransaction", input, Ok(ToTransaction(row)),
                                    <<"select users", "insert transactions">>)
            /\ UNCHANGED <<users, notes, nextNoteId, now, client>>

beginCreateNote(input) ==
    /\ Cardinality(pending) < MaxPending
    /\ nextNoteId + Cardinality(PendingOf("createNote")) <= MaxNotes
    /\ pending' = pending \cup {[slot |-> FreeSlot, op |-> "createNote",
                                 input |-> input,
                                 user |-> SelectUserById(users, input.user_id)]}
    /\ UNCHANGED <<users, transactions, notes, nextTxId, nextNoteId, now, last, client>>

finishCreateNote ==
    \E call \in PendingOf("createNote") :
        LET input == call.input
            row == [id |-> nextNoteId,
                    user_id |-> input.user_id,
                    title |-> input.title,
                    content |-> input.content,
                    created_at |-> now,
                    updated_at |-> now]
        IN  /\ pending' = pending \ {call}
            /\ IF call.user = {}
               THEN /\ last' = Call("createNote", input,
                                    Err("User with id " \o input.user_id \o " not found"),
                                    <<"select users">>)
                    /\ UNCHANGED <<notes, nextNoteId>>
               ELSE IF ~ReferencesUser(users, input.user_id)
               THEN /\ last' = Call("createNote", input,
                                    Err("foreign key violation"),
                                    <<"select users", "insert notes">>)
                    /\ UNCHANGED <<notes, nextNoteId>>
               ELSE /\ notes' = notes \cup {row}
                    /\ nextNoteId' = nextNoteId + 1
                    /\ last' = Call("createNote", input, Ok(row),
                                    <<"select users", "insert notes">>)
            /\ UNCHANGED <<users, transactions, nextTxId, now, client>>

StepUserInputs == {[id |-> "u1", email |-> "a@x"], [id |-> "u2", email |-> "a@x"]}

StepUpdateTransactionInputs ==
    [id : TxIds, type : {"expense"}, amount : {None}, category : {Undefined},
     description : {Undefined}, transaction_date : {None}]

StepUpdateNoteInputs == [id : NoteIds, title : {"t2"}, content : {Undefined}]

NextSteps ==
    \/ \E input \in StepUserInputs : createUser(input)
    \/ \E input \in CreateTransactionInputs : beginCreateTransaction(input)
    \/ finishCreateTransaction
    \/ \E input \in CreateNoteInputs : beginCreateNote(input)
    \/ finishCreateNote
    \/ \E input \in StepUpdateTransactionInputs : updateTransaction(input)
    \/ \E input \in StepUpdateNoteInputs : updateNote(input)
    \/ \E input \in DeleteTransactionInputs : deleteTransaction(input)
    \/ \E input \in DeleteNoteInputs : deleteNote(input)

SpecSteps == Init /\ [][NextSteps]_vars

\* C16: in every reachable state, with calls interleaved in any way, the
\* user_id of every stored transaction and of every stored note is the id of
\* a stored user.
C16_OwnersStored ==
    /\ \A t \in transactions : \E u \in users : u.id = t.user_id
    /\ \A n \in notes : \E u \in users : u.id = n.user_id

\* A transaction was inserted while another call was between its two steps,
\* with a transaction and a note stored and one user missing
C16_Witness ==
    /\ last.op = "createTransaction"
    /\ last.result.ok
    /\ pending # {}
    /\ transactions # {}
    /\ notes # {}
    /\ Cardinality(users) = 1

----------------------------------------------------------------------------
(* Listings over a store of ListTxs transactions: of u1 and of u2, of both *)
(* types and of two categories, some of them of the same business date     *)

ListKinds ==
    {[user_id |-> "u1", type |-> "income", category |-> "DD", transaction_date |-> Now0],
     [user_id |-> "u1", type |-> "income", category |-> "DD", transaction_date |-> Now0 + 1],
     [user_id |-> "u1", type |-> "expense", category |-> "PBH", transaction_date |-> Now0],
     [user_id |-> "u2", type |-> "income", category |-> "DD", transaction_date |-> Now0]}

ListRow(i, kind) ==
    [id |-> i, user_id |-> kind.user_id, type |-> kind.type, amount |-> 100 + i,
     category |-> kind.category, description |-> NULL,
     transaction_date |-> kind.transaction_date, created_at |-> Now0,
     updated_at |-> Now0]

InitList ==
    /\ users = {[id |-> "u1", email |-> "a@x"], [id |-> "u2", email |-> "b@x"]}
    /\ \E kinds \in [1..ListTxs -> ListKinds] :
          transactions = {ListRow(i, kinds[i]) : i \in 1..ListTxs}
    /\ notes = {}
    /\ nextTxId = ListTxs + 1
    /\ nextNoteId = 1
    /\ now = Now0 + 1
    /\ last = NoCall
    /\ pending = {}
    /\ client = FirstRender

ListTransactionsInputs ==
    [user_id : {"u1"}, type : {Undefined, "income"}, category : {Undefined, "DD"},
     limit : {None, Some(1), Some(2)}, offset : {None, Some(1), Some(ListTxs + 1)}]

NextList == \E input \in ListTransactionsInputs : getTransactionsByUser(input)

SpecList == InitList /\ [][NextList]_vars

\* The stored transactions a getTransactionsByUser request asks for
Wanted(input) ==
    {t \in transactions :
        /\ t.user_id = input.user_id
        /\ input.type = Undefined \/ t.type = input.type
        /\ input.category = Undefined \/ t.category = input.category}

DateDescending(l) ==
    \A i, j \in 1..Len(l) : i < j => l[i].transaction_date >= l[j].transaction_date

\* positions skip + 1 .. skip + take of list l, as far as l goes
Positions(l, skip, take) ==
    [i \in 1..(IF Len(l) - skip < 0 THEN 0
               ELSE IF Len(l) - skip < take THEN Len(l) - skip ELSE take) |-> l[skip + i]]

\* C21: getTransactionsByUser answers with positions O .. O+L-1 (counted
\* from 0) of a listing, by transaction_date descending, of the user's
\* transactions that match the type and the category that are supplied; O is
\* 0 without an offset and the listing is not cut without a limit.
C21_FilteredPage ==
    (last.op = "getTransactionsByUser") =>
        /\ last.result.ok
        /\ \E l \in Listings(Wanted(last.input)) :
              /\ DateDescending(l)
              /\ LET skip == IF last.input.offset = None THEN 0 ELSE last.input.offset[1]
                     take == IF last.input.limit = None THEN Len(l) ELSE last.input.limit[1]
                     page == Positions(l, skip, take)
                 IN  last.result.value = [i \in 1..Len(page) |-> ToTransaction(page[i])]

\* The second of three matching transactions was asked for, with both filters
C21_Witness ==
    /\ last.op = "getTransactionsByUser"
    /\ last.input.type = "income"
    /\ last.input.category = "DD"
    /\ last.input.limit = Some(1)
    /\ last.input.offset = Some(1)
    /\ Cardinality(Wanted(last.input)) = 3
    /\ Len(last.result.value) = 1

----------------------------------------------------------------------------
(* Note listings over a store of up to ListNotes notes of u1 and u2, some  *)
(* created at the same instant, and over a store where u1 has one note     *)
(* more than the default limit of getUserNotes                             *)

NoteKinds ==
    {[user_id |-> "u1", created_at |-> Now0],
     [user_id |-> "u1", created_at |-> Now0 - 1],
     [user_id |-> "u2", created_at |-> Now0]}

NoteRow(i, kind) ==
    [id |-> i, user_id |-> kind.user_id, title |-> "t", content |-> "c",
     created_at |-> kind.created_at, updated_at |-> kind.created_at]

ManyNotes == DefaultNotesLimit + 1

InitNotes ==
    /\ users = {[id |-> "u1", email |-> "a@x"], [id |-> "u2", email |-> "b@x"]}
    /\ transactions = {}
    /\ \/ \E kinds \in [1..ListNotes -> NoteKinds] :
             notes = {NoteRow(i, kinds[i]) : i \in 1..ListNotes}
       \/ notes = {NoteRow(i, [user_id |-> "u1", created_at |-> Now0 - ManyNotes + i]) :
                      i \in 1..ManyNotes}
    /\ nextTxId = 1
    /\ nextNoteId = Cardinality(notes) + 1
    /\ now = Now0 + 1
    /\ last = NoCall
    /\ pending = {}
    /\ client = FirstRender

ListNotesInputs ==
    [user_id : {"u1"}, limit : {None, Some(1), Some(2)},
     offset : {None, Some(0), Some(1), Some(ListNotes + 1)}]

NextNotes == \E input \in ListNotesInputs : getUserNotes(input)

SpecNotes == InitNotes /\ [][NextNotes]_vars

NotesOf(uid) == {n \in notes : n.user_id = uid}

CreatedDescending(l) ==
    \A i, j \in 1..Len(l) : i < j => l[i].created_at >= l[j].created_at

\* C22: getUserNotes without limit and offset answers with every note of
\* the user, by created_at descending; with a limit L and an offset O it
\* answers with positions O .. O+L-1 of such a listing.
C22_AllNotes ==
    (last.op = "getUserNotes") =>
        /\ last.result.ok
        /\ CreatedDescending(last.result.value)
        /\ \A i, j \in 1..Len(last.result.value) :
              i # j => last.result.value[i] # last.result.value[j]
        /\ \A i \in 1..Len(last.result.value) :
              last.result.value[i] \in NotesOf(last.input.user_id)
        /\ LET n == Cardinality(NotesOf(last.input.user_id))
               skip == IF last.input.offset = None THEN 0 ELSE last.input.offset[1]
               take == IF last.input.limit = None THEN n ELSE last.input.limit[1]
           IN  /\ Len(last.result.value) =
                     (IF n - skip < 0 THEN 0 ELSE IF n - skip < take THEN n - skip ELSE take)
               /\ \A m \in NotesOf(last.input.user_id) :
                     (\A i \in 1..Len(last.result.value) : last.result.value[i] # m) =>
                         \/ Len(last.result.value) = 0
                         \/ m.created_at >= last.result.value[1].created_at
                         \/ m.created_at <= last.result.value[Len(last.result.value)].created_at

----------------------------------------------------------------------------
(* Users: createUser and getUser among other calls.  u3 is an id that no   *)
(* createUser call carries.                                                *)

GetUserInputs == UserIds \cup {"u3"}

NextUsers ==
    \/ \E input \in CreateUserInputs : createUser(input)
    \/ \E userId \in GetUserInputs : getUser(userId)
    \/ \E input \in CreateNoteInputs : createNote(input)
    \/ Tick

SpecUsers == Init /\ [][NextUsers]_vars

UserOf(input) == [id |-> input.id, email |-> input.email]

----------------------------------------------------------------------------
(* Ownership on update.  The update requests carry no user: every call of  *)
(* SpecUpdate is taken to be sent by the client of Caller.                 *)

Caller == "u1"

\* C25: an update sent on behalf of a user changes no transaction and no
\* note of another user.
C25_UpdateOwnRecordsOnly ==
    [][ /\ \A t \in transactions : t.user_id # Caller => t \in transactions'
        /\ \A n \in notes : n.user_id # Caller => n \in notes' ]_vars

----------------------------------------------------------------------------
(* The deletes and the updates in two steps: the existence query, then the *)
(* check and the write, with the rows the query returned kept in pending   *)

beginDeleteTransaction(input) ==
    /\ Cardinality(pending) < MaxPending
    /\ pending' = pending \cup
          {[slot |-> FreeSlot, op |-> "deleteTransaction", input |-> input,
            existing |-> SelectTxByIdAndUser(transactions, input.id, input.user_id)]}
    /\ UNCHANGED <<users, transactions, notes, nextTxId, nextNoteId, now, last, client>>

finishDeleteTransaction ==
    \E call \in PendingOf("deleteTransaction") :
        /\ pending' = pending \ {call}
        /\ IF call.existing = {}
           THEN /\ last' = Call("deleteTransaction", call.input,
                                Err("Transaction not found or access denied"),
                                <<"select transactions">>)
                /\ transactions' = transactions
           ELSE /\ transactions' = DeleteTxByIdAndUser(transactions, call.input.id,
                                                       call.input.user_id)
                /\ last' = Call("deleteTransaction", call.input, Ok([success |-> TRUE]),
                                <<"select transactions", "delete transactions">>)
        /\ UNCHANGED <<users, notes, nextTxId, nextNoteId, now, client>>

beginDeleteNote(input) ==
    /\ Cardinality(pending) < MaxPending
    /\ pending' = pending \cup
          {[slot |-> FreeSlot, op |-> "deleteNote", input |-> input,
            existing |-> SelectNoteByIdAndUser(notes, input.id, input.user_id)]}
    /\ UNCHANGED <<users, transactions, notes, nextTxId, nextNoteId, now, last, client>>

finishDeleteNote ==
    \E call \in PendingOf("deleteNote") :
        /\ pending' = pending \ {call}
        /\ IF call.existing = {}
           THEN /\ last' = Call("deleteNote", call.input, Ok([success |-> FALSE]),
                                <<"select notes">>)
                /\ notes' = notes
           ELSE LET remaining == DeleteNoteByIdAndUser(notes, call.input.id,
                                                       call.input.user_id)
                    rowCount == Cardinality(notes) - Cardinality(remaining)
                IN  /\ notes' = remaining
                    /\ last' = Call("deleteNote", call.input,
                                    Ok([success |-> rowCount > 0]),
                                    <<"select notes", "delete notes">>)
        /\ UNCHANGED <<users, transactions, nextTxId, nextNoteId, now, client>>

UpdateRowAsRead(stored, read) == read

\* The row an update statement changes is the stored one, whatever the
\* existence query had returned
UpdateRow(stored, read) == stored

beginUpdateTransaction(input) ==
    /\ Cardinality(pending) < MaxPending
    /\ pending' = pending \cup
          {[slot |-> FreeSlot, op |-> "updateTransaction", input |-> input,
            existing |-> ExistingTransactions(transactions, input.id)]}
    /\ UNCHANGED <<users, transactions, notes, nextTxId, nextNoteId, now, last, client>>

finishUpdateTransaction ==
    \E call \in PendingOf("updateTransaction") :
        /\ pending' = pending \ {call}
        /\ IF call.existing = {}
           THEN /\ last' = Call("updateTransaction", call.input,
                                Err("Transaction not found"), <<"select transactions">>)
                /\ transactions' = transactions
           ELSE LET read == CHOOSE t \in call.existing : TRUE
                    changed == {SetTransaction(UpdateRow(t, read), call.input, now) :
                                   t \in {x \in transactions : x.id = call.input.id}}
                IN  /\ transactions' =
                          {t \in transactions : t.id # call.input.id} \cup changed
                    /\ last' = Call("updateTransaction", call.input,
                                    IF changed = {} THEN Err("TypeError")
                                    ELSE Ok(ToTransaction(CHOOSE t \in changed : TRUE)),
                                    <<"select transactions", "update transactions">>)
        /\ UNCHANGED <<users, notes, nextTxId, nextNoteId, now, client>>

beginUpdateNote(input) ==
    /\ Cardinality(pending) < MaxPending
    /\ pending' = pending \cup
          {[slot |-> FreeSlot, op |-> "updateNote", input |-> input,
            existing |-> ExistingNotes(notes, input.id)]}
    /\ UNCHANGED <<users, transactions, notes, nextTxId, nextNoteId, now, last, client>>

finishUpdateNote ==
    \E call \in PendingOf("updateNote") :
        /\ pending' = pending \ {call}
        /\ IF call.existing = {}
           THEN /\ last' = Call("updateNote", call.input, NoteNotFound(call.input.id),
                                <<"select notes">>)
                /\ notes' = notes
           ELSE LET changed == {SetNote(n, call.input, now) :
                                   n \in {x \in notes : x.id = call.input.id}}
                IN  /\ notes' = {n \in notes : n.id # call.input.id} \cup changed
                    /\ last' = Call("updateNote", call.input,
                                    IF changed = {} THEN Ok(Undefined)
                                    ELSE Ok(CHOOSE n \in changed : TRUE),
                                    <<"select notes", "update notes">>)
        /\ UNCHANGED <<users, transactions, nextTxId, nextNoteId, now, client>>

----------------------------------------------------------------------------
(* Races on one transaction and one note of u1: deletes and updates of the *)
(* same id, each in two steps, interleaved in every way                    *)

RaceDeleteTransactionInputs == {[id |-> 1, user_id |-> "u1"]}

RaceDeleteNoteInputs == {[id |-> 1, user_id |-> "u1"]}

RaceUpdateTransactionInputs ==
    {[id |-> 1, type |-> "expense", amount |-> None, category |-> Undefined,
      description |-> Undefined, transaction_date |-> None],
     [id |-> 1, type |-> Undefined, amount |-> Some(2504), category |-> Undefined,
      description |-> Undefined, transaction_date |-> None]}

RaceUpdateNoteInputs == {[id |-> 1, title |-> "t2", content |-> Undefined]}

NextRaces ==
    \/ \E input \in RaceDeleteTransactionInputs : beginDeleteTransaction(input)
    \/ finishDeleteTransaction
    \/ \E input \in RaceDeleteNoteInputs : beginDeleteNote(input)
    \/ finishDeleteNote
    \/ \E input \in RaceUpdateTransactionInputs : beginUpdateTransaction(input)
    \/ finishUpdateTransaction
    \/ \E input \in RaceUpdateNoteInputs : beginUpdateNote(input)
    \/ finishUpdateNote

SpecRaces == InitUpdate /\ [][NextRaces]_vars

\* The call that a step completes
Completes(op) ==
    /\ Cardinality(pending') < Cardinality(pending)
    /\ last'.op = op
    /\ \E call \in pending \ pending' : call.op = op /\ call.input = last'.input

\* C26: of deleteTransaction calls, and of deleteNote calls, for the same
\* id and user_id that run at once, only the one whose delete statement
\* removed the record answers success = true.
C26_OneDeleteSucceeds ==
    [][ /\ (Completes("deleteTransaction") /\ last'.result.ok
                /\ last'.result.value.success)
           => \E t \in transactions : t.id = last'.input.id /\ t \notin transactions'
        /\ (Completes("deleteNote") /\ last'.result.ok /\ last'.result.value.success)
           => \E n \in notes : n.id = last'.input.id /\ n \notin notes'
      ]_vars

\* C27: an update that completes when its record is no longer stored fails
\* with the not-found error of its handler and stores nothing.
C27_UpdateOfDeletedFails ==
    [][ /\ (Completes("updateTransaction")
                /\ \A t \in transactions : t.id # last'.input.id)
           => /\ ~last'.result.ok
              /\ last'.result.error = "Transaction not found"
              /\ transactions' = transactions
        /\ (Completes("updateNote") /\ \A n \in notes : n.id # last'.input.id)
           => /\ ~last'.result.ok
              /\ last'.result = NoteNotFound(last'.input.id)
              /\ notes' = notes
      ]_vars

\* C29: an updateTransaction that completes on a stored id, whatever other
\* updates were made since its existence query, sets in the stored record
\* the fields it supplies and updated_at and leaves every other field as the
\* last write left it.
C29_ConcurrentUpdatesKept ==
    [][ (Completes("updateTransaction") /\ HasRow(transactions, last'.input.id)) =>
            LET input == last'.input
                old == RowOf(transactions, input.id)
                new == RowOf(transactions', input.id)
            IN  /\ last'.result.ok
                /\ HasRow(transactions', input.id)
                /\ new.type = (IF input.type # Undefined THEN input.type ELSE old.type)
                /\ new.amount = (IF input.amount # None THEN ToNumeric(input.amount[1])
                                 ELSE old.amount)
                /\ new.category = (IF input.category # Undefined THEN input.category
                                   ELSE old.category)
                /\ new.description = (IF input.description # Undefined
                                      THEN input.description ELSE old.description)
                /\ new.transaction_date = (IF input.transaction_date # None
                                           THEN input.transaction_date[1]
                                           ELSE old.transaction_date)
                /\ new.user_id = old.user_id
                /\ new.created_at = old.created_at
      ]_vars

\* Two updates of disjoint fields are both kept while a third call, which
\* had read the record before either write, has yet to complete
C29_Witness ==
    /\ last.op = "updateTransaction"
    /\ last.result.ok
    /\ \E t \in transactions :
          /\ t.id = last.input.id
          /\ t.type = "expense"
          /\ t.amount = ToNumeric(2504)
          /\ \E call \in PendingOf("updateTransaction") :
                /\ call.input.id = t.id
                /\ call.existing = {StoredTransaction(t.id, t.user_id)}

----------------------------------------------------------------------------
(* getDashboardData in two steps: the query of all the user's transactions *)
(* with the loop over them, then the query of the recent ones.  The rows   *)
(* of the first query and the sums of the loop are kept in pending.        *)

beginGetDashboardData(userId) ==
    /\ Cardinality(pending) < MaxPending
    /\ \E all \in AnyOrder(SelectTxByUser(transactions, userId)) :
          pending' = pending \cup
              {[slot |-> FreeSlot, op |-> "getDashboardData", input |-> userId,
                allTransactions |-> {all[i] : i \in 1..Len(all)},
                sums |-> DashboardTotals(all, ZeroDashboard, MonthWindow(now))]}
    /\ UNCHANGED <<users, transactions, notes, nextTxId, nextNoteId, now, last, client>>

finishGetDashboardData ==
    \E call \in PendingOf("getDashboardData") :
        /\ pending' = pending \ {call}
        /\ \E l \in OrderByCreatedAtDesc(SelectTxByUser(transactions, call.input)) :
              last' = Call("getDashboardData", call.input,
                           Ok(DashboardData(call.sums, Limit(l, RecentLimit))),
                           <<"select transactions", "select transactions">>)
        /\ UNCHANGED <<users, transactions, notes, nextTxId, nextNoteId, now, client>>

DashStepTransactionInputs ==
    [user_id : {"u1"}, type : {"income"}, amount : {1005}, category : {"DD"},
     description : {Undefined}, transaction_date : {Now0}]

DashStepDeleteInputs == [id : TxIds, user_id : {"u1"}]

NextDashSteps ==
    \/ \E input \in DashStepTransactionInputs : createTransaction(input)
    \/ \E input \in DashStepDeleteInputs : deleteTransaction(input)
    \/ beginGetDashboardData("u1")
    \/ finishGetDashboardData

SpecDashSteps == InitAmounts /\ [][NextDashSteps]_vars

\* C28: a dashboard is that of one state of the store, whatever calls took
\* effect between its two queries: every transaction in recent_transactions
\* is one that the totals count, and every counted transaction with fewer
\* than five of the counted ones created after or with it is in
\* recent_transactions.
C28_DashboardOfOneState ==
    [][ \A call \in pending \ pending' :
            (call.op = "getDashboardData" /\ last'.op = "getDashboardData") =>
                LET counted == call.allTransactions
                    recent == last'.result.value.recent_transactions
                    recentIds == {recent[i].id : i \in 1..Len(recent)}
                IN  /\ \A id \in recentIds : \E c \in counted : c.id = id
                    /\ \A c \in counted :
                          Cardinality({x \in counted :
                                          x # c /\ x.created_at >= c.created_at})
                              < RecentLimit
                          => c.id \in recentIds
      ]_vars

----------------------------------------------------------------------------
(* The client: sign-ins with the demo accounts and with wrong credentials, *)
(* sign-ups, sign-outs and reloads of the page                             *)

LoginInputs ==
    [email : {"demo@nopifin.com", "test@example.com", "other@x.com", "Demo@nopifin.com"},
     password : {DemoPassword, "Demo123", "demo1234"}]

SignupInputs ==
    [email : {"new@x.com", "demo@nopifin.com", "other@x.com"}, password : {"secret"}]

NextClient ==
    \/ checkSession
    \/ \E input \in LoginInputs : login(input)
    \/ \E input \in SignupInputs : signup(input)
    \/ submitSettles
    \/ toggleIsLogin
    \/ logout
    \/ reload
    \/ Tick

SpecClient == Init /\ [][NextClient]_vars

\* C30: every login attempt, successful or not, ends with loading = false,
\* so that the login form is shown again after invalid credentials; a failed
\* login leaves user and the persisted session as they were; after logout
\* user and the persisted session are absent.
C30_LoginEndsLoading ==
    [][ /\ (last'.op = "login" /\ client.submitted # None /\ client'.submitted = None) =>
              /\ client'.loading = FALSE
              /\ ~last'.result.ok => FormShown(client')
        /\ (last'.op = "login" /\ last' # last /\ ~last'.result.ok) =>
              /\ client'.user = client.user
              /\ client'.nopifin_user = client.nopifin_user
        /\ (last'.op = "logout" /\ last' # last) =>
              /\ client'.user = None
              /\ client'.nopifin_user = None
      ]_vars

====
